---- MODULE Spec2Model ----
(***************************************************************************)
(* Model of the Ollama REST facade (src/src/api.py, src/src/utils.py,      *)
(* src/config/settings.py): the admission middleware run before every     *)
(* request, the shared rate-limit store, the payload/model-name            *)
(* validation and the seven route handlers with their error handlers.      *)
(*                                                                         *)
(* Text values are sequences of one-character strings, so that split,      *)
(* strip and substring tests are computed as the code computes them.       *)
(* Time is the value of time.time() in whole seconds.                      *)
(***************************************************************************)
EXTENDS Integers, Sequences, FiniteSets, TLC

VARIABLES
    config,              \* the Config class attributes read by the handlers
    now,                 \* the value time.time() returns
    rate_limit_storage,  \* api.py:63, client address -> deque of timestamps
    req,                 \* the request being answered
    resp,                \* the response returned for req
    trace,               \* the steps run for req, in order
    upstream,            \* what the engine / control command did for req
    passed,              \* per address, the times of the requests that passed
                         \* the limiter during the last WINDOW seconds
    settings,            \* the Config attributes checked by Config.validate
    process,             \* "importing" while config.settings is being imported,
                         \* then "serving", or "failed" when the import raised
    threads              \* per worker thread, where it stands in
                         \* security_middleware and the locals it holds

vars ==
    <<config, now, rate_limit_storage, req, resp, trace, upstream, passed,
      settings, process, threads>>

(***************************************************************************)
(* Bounds of the model                                                     *)
(***************************************************************************)
\* the clock is followed up to this value
MaxTime == 62
\* largest per-minute budget a configuration is drawn with
MaxBudget == 2

(***************************************************************************)
(* Python values                                                           *)
(***************************************************************************)
PyNone == [t |-> "none", v |-> <<>>]
PyStr(s) == [t |-> "str", v |-> s]
PyInt(n) == [t |-> "int", v |-> <<n>>]
PyList(xs) == [t |-> "list", v |-> xs]
PyDict(f) == [t |-> "dict", v |-> f]

\* bool(x)
Truthy(x) ==
    CASE x.t = "none" -> FALSE
      [] x.t = "str"  -> x.v # <<>>
      [] x.t = "int"  -> x.v[1] # 0
      [] x.t = "list" -> x.v # <<>>
      [] x.t = "dict" -> DOMAIN x.v # {}

\* a or b
PyOr(a, b) == IF Truthy(a) THEN a ELSE b

\* pat in s, for two texts
Contains(s, pat) ==
    \E i \in 1..(Len(s) + 1) :
        /\ i + Len(pat) - 1 <= Len(s)
        /\ SubSeq(s, i, i + Len(pat) - 1) = pat

IsSpace(c) == c \in {" ", "\t", "\n"}

RECURSIVE LStrip(_)
LStrip(s) == IF s # <<>> /\ IsSpace(Head(s)) THEN LStrip(Tail(s)) ELSE s

RECURSIVE RStrip(_)
RStrip(s) ==
    IF s # <<>> /\ IsSpace(s[Len(s)]) THEN RStrip(SubSeq(s, 1, Len(s) - 1)) ELSE s

\* s.strip()
Strip(s) == RStrip(LStrip(s))

\* s.split(','): the pieces between commas, empty pieces kept
RECURSIVE SplitFrom(_, _)
SplitFrom(s, cur) ==
    IF s = <<>> THEN <<cur>>
    ELSE IF Head(s) = "," THEN <<cur>> \o SplitFrom(Tail(s), <<>>)
    ELSE SplitFrom(Tail(s), Append(cur, Head(s)))

Split(s) == SplitFrom(s, <<>>)

\* ', '.join(xs), kept as the sequence of its parts
RECURSIVE Join(_)
Join(xs) ==
    IF xs = <<>> THEN <<>>
    ELSE IF Len(xs) = 1 THEN xs
    ELSE <<Head(xs), ", ">> \o Join(Tail(xs))

Range(f) == { f[i] : i \in DOMAIN f }

(***************************************************************************)
(* Configuration (src/config/settings.py)                                  *)
(***************************************************************************)
\* os.getenv returning None
NoText == <<"<None>">>

IsSetWhenEmpty(s) == s # NoText

\* truth of an optional text setting: neither None nor ""
IsSet(s) == s # NoText /\ s # <<>>

get_allowed_ips_list_unstripped(cfg) ==
    IF IsSet(cfg.ALLOWED_IPS) THEN Split(cfg.ALLOWED_IPS) ELSE <<>>

\* Config.get_allowed_ips_list
get_allowed_ips_list(cfg) ==
    IF IsSet(cfg.ALLOWED_IPS)
    THEN [i \in DOMAIN Split(cfg.ALLOWED_IPS) |-> Strip(Split(cfg.ALLOWED_IPS)[i])]
    ELSE <<>>

\* the highest port number (settings.py:63)
MAX_PORT == 65535

validate_without_generate_timeout(st) ==
    IF ~(1 <= st.PORT /\ st.PORT <= MAX_PORT) THEN FALSE
    ELSE IF ~(1 <= st.OLLAMA_PORT /\ st.OLLAMA_PORT <= MAX_PORT) THEN FALSE
    ELSE IF st.REQUEST_TIMEOUT <= 0 THEN FALSE
    ELSE TRUE

\* Config.validate
validate(st) ==
    IF ~(1 <= st.PORT /\ st.PORT <= MAX_PORT) THEN FALSE
    ELSE IF ~(1 <= st.OLLAMA_PORT /\ st.OLLAMA_PORT <= MAX_PORT) THEN FALSE
    ELSE IF st.REQUEST_TIMEOUT <= 0 THEN FALSE
    ELSE IF st.GENERATE_TIMEOUT <= 0 THEN FALSE
    ELSE TRUE

\* the defaults of the os.getenv calls
DefaultSettings ==
    [PORT |-> 5000, OLLAMA_PORT |-> 11434, OLLAMA_TIMEOUT |-> 3600,
     REQUEST_TIMEOUT |-> 60, GENERATE_TIMEOUT |-> 300]

(***************************************************************************)
(* Response envelope (src/src/utils.py)                                    *)
(***************************************************************************)
create_success_response(data, message) ==
    [status |-> "success", message |-> message, data |-> data, timestamp |-> now]

create_error_response(error, code) ==
    [status |-> "error", error |-> error, error_code |-> code, timestamp |-> now]

\* jsonify(body), status
Response(status, body) == [status |-> status, body |-> body]

\* before_request returned None: the request goes on to its handler
NoResponse == [status |-> 0, body |-> [none |-> TRUE]]

(***************************************************************************)
(* Admission middleware (src/src/api.py, security_middleware)              *)
(***************************************************************************)
\* the sliding window of the limiter, in seconds (api.py:84)
WINDOW == 60

\* while request_times and current_time - request_times[0] > 60: popleft()
RECURSIVE Evict(_, _)
Evict(request_times, current_time) ==
    IF request_times # <<>> /\ current_time - Head(request_times) > WINDOW
    THEN Evict(Tail(request_times), current_time)
    ELSE request_times

LookupAnyRecord(storage, client_ip) ==
    IF DOMAIN storage = {} THEN <<>>
    ELSE storage[CHOOSE a \in DOMAIN storage : TRUE]

\* rate_limit_storage[client_ip] on the defaultdict: a missing key reads empty
Lookup(storage, client_ip) ==
    IF client_ip \in DOMAIN storage THEN storage[client_ip] ELSE <<>>

OverLimitOffByOne(request_times, cfg) ==
    Len(request_times) > cfg.RATE_LIMIT_PER_MINUTE

\* len(request_times) >= config.RATE_LIMIT_PER_MINUTE
OverLimit(request_times, cfg) == Len(request_times) >= cfg.RATE_LIMIT_PER_MINUTE

RateLimitCountingDenied(r, cfg, storage, current_time) ==
    LET request_times == Evict(Lookup(storage, r.remote_addr), current_time)
        limited == OverLimit(request_times, cfg)
    IN  [limited |-> limited,
         storage |-> [a \in DOMAIN storage \cup {r.remote_addr} |->
                        IF a = r.remote_addr
                        THEN Append(request_times, current_time)
                        ELSE storage[a]]]

\* lines 78-96: the record after the request, and whether it was refused
RateLimit(r, cfg, storage, current_time) ==
    LET request_times == Evict(Lookup(storage, r.remote_addr), current_time)
        limited == OverLimit(request_times, cfg)
        kept == IF limited THEN request_times
                ELSE Append(request_times, current_time)
    IN  [limited |-> limited,
         storage |-> [a \in DOMAIN storage \cup {r.remote_addr} |->
                        IF a = r.remote_addr THEN kept ELSE storage[a]]]

\* allowed_ips and request.remote_addr not in allowed_ips
IpRefused(r, cfg) ==
    LET allowed_ips == get_allowed_ips_list(cfg)
    IN  allowed_ips # <<>> /\ r.remote_addr \notin Range(allowed_ips)

provided_key_query_first(r) == PyOr(r.query_key, r.header_key)

\* request.headers.get('X-API-Key') or request.args.get('api_key')
provided_key(r) == PyOr(r.header_key, r.query_key)

\* config.API_KEY is set and provided_key != config.API_KEY
KeyRefused(r, cfg) ==
    IsSet(cfg.API_KEY) /\ provided_key(r) # PyStr(cfg.API_KEY)

RateLimitDenied(cfg) ==
    Response(429, create_error_response(
        <<"Rate limit superato: massimo ", ToString(cfg.RATE_LIMIT_PER_MINUTE),
          " richieste per minuto">>, "RATE_LIMIT_EXCEEDED"))

IpDenied ==
    Response(403, create_error_response(
        <<"Accesso negato: IP non autorizzato">>, "UNAUTHORIZED_IP"))

KeyDenied ==
    Response(401, create_error_response(
        <<"API key mancante o non valida">>, "INVALID_API_KEY"))

ExemptNothing(r) == FALSE

ExemptGetOnly(r) == r.path = "/health" /\ r.method = "GET"

\* request.path == '/health'
Exempt(r) == r.path = "/health"

\* the allow-list consulted before the limiter
security_middleware_ip_first(r, cfg, storage, current_time) ==
    IF Exempt(r)
    THEN [resp |-> NoResponse, storage |-> storage, trace |-> <<>>,
          counted |-> FALSE]
    ELSE IF IpRefused(r, cfg)
    THEN [resp |-> IpDenied, storage |-> storage,
          trace |-> <<"allowed_ips">>, counted |-> FALSE]
    ELSE
      LET rl == IF cfg.RATE_LIMIT_ENABLED
                THEN RateLimit(r, cfg, storage, current_time)
                ELSE [limited |-> FALSE, storage |-> storage]
          counted == cfg.RATE_LIMIT_ENABLED /\ ~rl.limited
      IN  IF rl.limited
          THEN [resp |-> RateLimitDenied(cfg), storage |-> rl.storage,
                trace |-> <<"allowed_ips", "rate_limit">>, counted |-> FALSE]
          ELSE IF KeyRefused(r, cfg)
          THEN [resp |-> KeyDenied, storage |-> rl.storage,
                trace |-> <<"allowed_ips", "rate_limit", "api_key">>,
                counted |-> counted]
          ELSE [resp |-> NoResponse, storage |-> rl.storage,
                trace |-> <<"allowed_ips", "rate_limit", "api_key">>,
                counted |-> counted]

\* the timestamp recorded only once the allow-list and the key have passed
security_middleware_record_last(r, cfg, storage, current_time) ==
    IF Exempt(r)
    THEN [resp |-> NoResponse, storage |-> storage, trace |-> <<>>,
          counted |-> FALSE]
    ELSE
      LET rl == IF cfg.RATE_LIMIT_ENABLED
                THEN RateLimit(r, cfg, storage, current_time)
                ELSE [limited |-> FALSE, storage |-> storage]
          counted == cfg.RATE_LIMIT_ENABLED /\ ~rl.limited
      IN  IF rl.limited
          THEN [resp |-> RateLimitDenied(cfg), storage |-> rl.storage,
                trace |-> <<"rate_limit">>, counted |-> FALSE]
          ELSE IF IpRefused(r, cfg)
          THEN [resp |-> IpDenied, storage |-> storage,
                trace |-> <<"rate_limit", "allowed_ips">>, counted |-> FALSE]
          ELSE IF KeyRefused(r, cfg)
          THEN [resp |-> KeyDenied, storage |-> storage,
                trace |-> <<"rate_limit", "allowed_ips", "api_key">>,
                counted |-> FALSE]
          ELSE [resp |-> NoResponse, storage |-> rl.storage,
                trace |-> <<"rate_limit", "allowed_ips", "api_key">>,
                counted |-> counted]

\* The whole before_request function: the response it returns (NoResponse
\* when it returns None), the store it leaves, and the checks it reached.
security_middleware(r, cfg, storage, current_time) ==
    IF Exempt(r)
    THEN [resp |-> NoResponse, storage |-> storage, trace |-> <<>>,
          counted |-> FALSE]
    ELSE
      LET rl == IF cfg.RATE_LIMIT_ENABLED
                THEN RateLimit(r, cfg, storage, current_time)
                ELSE [limited |-> FALSE, storage |-> storage]
          counted == cfg.RATE_LIMIT_ENABLED /\ ~rl.limited
      IN  IF rl.limited
          THEN [resp |-> RateLimitDenied(cfg), storage |-> rl.storage,
                trace |-> <<"rate_limit">>, counted |-> FALSE]
          ELSE IF IpRefused(r, cfg)
          THEN [resp |-> IpDenied, storage |-> rl.storage,
                trace |-> <<"rate_limit", "allowed_ips">>, counted |-> counted]
          ELSE IF KeyRefused(r, cfg)
          THEN [resp |-> KeyDenied, storage |-> rl.storage,
                trace |-> <<"rate_limit", "allowed_ips", "api_key">>,
                counted |-> counted]
          ELSE [resp |-> NoResponse, storage |-> rl.storage,
                trace |-> <<"rate_limit", "allowed_ips", "api_key">>,
                counted |-> counted]

(***************************************************************************)
(* Payload and model-name validation (src/src/utils.py)                    *)
(***************************************************************************)
\* field in data: a key of a JSON object, an element of a JSON array
FieldIn(field, data) ==
    CASE data.t = "dict" -> field \in DOMAIN data.v
      [] data.t = "list" -> field \in Range(data.v)
      [] OTHER -> FALSE

missing_fields_first_only(required_fields, data) ==
    LET absent(field) == ~FieldIn(field, data)
        all == SelectSeq(required_fields, absent)
    IN  IF all = <<>> THEN <<>> ELSE <<Head(all)>>

\* [field for field in required_fields if field not in data]
missing_fields(required_fields, data) ==
    LET absent(field) == ~FieldIn(field, data)
    IN  SelectSeq(required_fields, absent)

\* The wrapper of the validate_json_payload decorator: the 400 it returns, or
\* NoResponse when it goes on to call func.
validate_json_payload(required_fields, r) ==
    IF ~r.is_json
    THEN Response(400, [error |-> <<"Content-Type deve essere application/json">>])
    ELSE IF ~Truthy(r.data)
    THEN Response(400, [error |-> <<"Payload JSON mancante o non valido">>])
    ELSE IF missing_fields(required_fields, r.data) # <<>>
    THEN Response(400, [error |-> <<"Campi mancanti: ">>
                                   \o Join(missing_fields(required_fields, r.data))])
    ELSE NoResponse

dangerous_chars_without_semicolon ==
    << <<"/">>, <<"\\">>, <<".", ".">>, <<"<">>, <<">">>, <<"|">>, <<"&">> >>

dangerous_chars ==
    << <<"/">>, <<"\\">>, <<".", ".">>, <<"<">>, <<">">>, <<"|">>, <<"&">>, <<";">> >>

\* validate_model_name
validate_model_name(model_name) ==
    IF ~Truthy(model_name) \/ model_name.t # "str"
    THEN FALSE
    ELSE /\ Len(Strip(model_name.v)) > 0
         /\ ~\E i \in DOMAIN dangerous_chars :
                Contains(model_name.v, dangerous_chars[i])

\* data.get(key)
Get(data, key) == IF key \in DOMAIN data.v THEN data.v[key] ELSE PyNone

InvalidModelName ==
    Response(400, create_error_response(
        <<"Nome del modello non valido">>, "INVALID_MODEL_NAME"))

\* a handler's "except Exception" branch
InternalError(prefix) ==
    Response(500, create_error_response(<<prefix, "str(e)">>, "INTERNAL_ERROR"))

(***************************************************************************)
(* Route handlers (src/src/api.py).  Each takes the request and what the   *)
(* engine or control command does when called, and gives the response, the *)
(* steps it ran and the upstream outcome ("none" when nothing was called). *)
(***************************************************************************)
Handled(response, steps, outcome) ==
    [resp |-> response, trace |-> steps, upstream |-> outcome]

health_check_ollama_any_reply(o) == o \in {"200", "503"}

\* health_check_ollama: response.status_code == 200, False on any exception
health_check_ollama(o) == o = "200"

\* GET /health
health_check(r, o) ==
    Handled(Response(200, [status |-> "ok",
                           message |-> <<"API Ollama funzionante">>,
                           version |-> "1.0.0",
                           ollama_status |-> IF health_check_ollama(o)
                                             THEN "online" ELSE "offline"]),
            <<"health_check_ollama">>, o)

\* POST /generate
generate_response(r, o) ==
    LET v == validate_json_payload(<<"model", "prompt">>, r)
        model == Get(r.data, "model")
    IN  IF v.status # 0 THEN Handled(v, <<"validate_json_payload">>, "none")
        ELSE IF r.data.t # "dict"
        THEN Handled(InternalError("Errore interno durante la generazione: "),
                     <<"validate_json_payload", "handler">>, "none")
        ELSE IF ~validate_model_name(model)
        THEN Handled(InvalidModelName,
                     <<"validate_json_payload", "handler", "validate_model_name">>,
                     "none")
        ELSE Handled(
               CASE o = "ok" ->
                      Response(200, create_success_response(
                          [model |-> model.v, response |-> "text", done |-> TRUE],
                          <<"Testo generato con successo">>))
                 [] o = "ResponseError" ->
                      Response(500, create_error_response(
                          <<"Errore del modello Ollama: ", "str(e)">>, "OLLAMA_ERROR"))
                 [] OTHER -> InternalError("Errore interno durante la generazione: "),
               <<"validate_json_payload", "handler", "validate_model_name",
                 "ollama.generate">>, o)

BadMessagesTypeOnly(messages) == messages.t # "list"

\* not isinstance(messages, list) or not messages
BadMessages(messages) == messages.t # "list" \/ ~Truthy(messages)

\* POST /chat
chat(r, o) ==
    LET v == validate_json_payload(<<"model", "messages">>, r)
        model == Get(r.data, "model")
        messages == Get(r.data, "messages")
    IN  IF v.status # 0 THEN Handled(v, <<"validate_json_payload">>, "none")
        ELSE IF r.data.t # "dict"
        THEN Handled(InternalError("Errore interno durante la chat: "),
                     <<"validate_json_payload", "handler">>, "none")
        ELSE IF ~validate_model_name(model)
        THEN Handled(InvalidModelName,
                     <<"validate_json_payload", "handler", "validate_model_name">>,
                     "none")
        ELSE IF BadMessages(messages)
        THEN Handled(Response(400, create_error_response(
                         <<"I messaggi devono essere una lista non vuota">>,
                         "INVALID_MESSAGES_FORMAT")),
                     <<"validate_json_payload", "handler", "validate_model_name",
                       "messages_check">>, "none")
        ELSE Handled(
               CASE o = "ok" ->
                      Response(200, create_success_response(
                          [model |-> model.v, message |-> "reply", done |-> TRUE],
                          <<"Chat completata con successo">>))
                 [] o = "ResponseError" ->
                      Response(500, create_error_response(
                          <<"Errore del modello Ollama: ", "str(e)">>, "OLLAMA_ERROR"))
                 [] OTHER -> InternalError("Errore interno durante la chat: "),
               <<"validate_json_payload", "handler", "validate_model_name",
                 "messages_check", "ollama.chat">>, o)

list_models_retrying(r, o) ==
    Handled(
      IF o = "ok"
      THEN Response(200, create_success_response(
               [models |-> <<>>, total_count |-> 0],
               <<"Lista modelli ottenuta con successo">>))
      ELSE Response(500, create_error_response(
               <<"Errore nel recuperare la lista dei modelli: ", "str(e)">>,
               "LIST_MODELS_ERROR")),
      IF o = "ok" THEN <<"handler", "ollama.list">>
      ELSE <<"handler", "ollama.list", "ollama.list">>, o)

\* GET /list
list_models(r, o) ==
    Handled(
      IF o = "ok"
      THEN Response(200, create_success_response(
               [models |-> <<>>, total_count |-> 0],
               <<"Lista modelli ottenuta con successo">>))
      ELSE Response(500, create_error_response(
               <<"Errore nel recuperare la lista dei modelli: ", "str(e)">>,
               "LIST_MODELS_ERROR")),
      <<"handler", "ollama.list">>, o)

\* what the ollama command does when started: its exit status and how long
\* it runs, or no such executable
CommandRuns ==
    { "exit 0 after 5 s", "exit 1 after 5 s", "exit 0 after 20 s",
      "exit 1 after 20 s", "exit 0 after 40 s", "not found" }

Seconds(run) ==
    CASE run \in {"exit 0 after 5 s", "exit 1 after 5 s"} -> 5
      [] run \in {"exit 0 after 20 s", "exit 1 after 20 s"} -> 20
      [] run = "exit 0 after 40 s" -> 40
      [] OTHER -> 0

ExitStatus(run) ==
    IF run \in {"exit 1 after 5 s", "exit 1 after 20 s"} THEN 1 ELSE 0

\* timeout=10 of the ollama ps call (api.py:375)
PS_TIMEOUT == 10
\* timeout=30 of the ollama stop call (api.py:450)
STOP_TIMEOUT == 30

subprocess_run_unchecked(run, timeout) ==
    IF run = "not found" THEN "Exception"
    ELSE IF Seconds(run) > timeout THEN "TimeoutExpired"
    ELSE "ok"

\* subprocess.run(..., check=True, timeout=timeout): how the call ends
subprocess_run(run, timeout) ==
    IF run = "not found" THEN "Exception"
    ELSE IF Seconds(run) > timeout THEN "TimeoutExpired"
    ELSE IF ExitStatus(run) # 0 THEN "CalledProcessError"
    ELSE "ok"

\* GET /ps
process_status(r, run) ==
    LET o == subprocess_run(run, PS_TIMEOUT) IN
    Handled(
      CASE o = "ok" ->
             Response(200, create_success_response(
                 [raw_output |-> "stdout", processes |-> <<>>, total_processes |-> 0],
                 <<"Status processi ottenuto con successo">>))
        [] o = "CalledProcessError" ->
             Response(500, create_error_response(
                 <<"Errore comando ollama ps: ", "str(e)">>, "OLLAMA_PS_ERROR"))
        [] o = "TimeoutExpired" ->
             Response(500, create_error_response(
                 <<"Timeout durante l'esecuzione di ollama ps">>, "OLLAMA_PS_TIMEOUT"))
        [] OTHER -> InternalError("Errore interno durante ollama ps: "),
      <<"handler", "ollama ps">>, run)

\* POST /stop
stop_model(r, run) ==
    LET v == validate_json_payload(<<"model">>, r)
        model == Get(r.data, "model")
        o == subprocess_run(run, STOP_TIMEOUT)
    IN  IF v.status # 0 THEN Handled(v, <<"validate_json_payload">>, "none")
        ELSE IF r.data.t # "dict"
        THEN Handled(InternalError("Errore interno durante l'arresto: "),
                     <<"validate_json_payload", "handler">>, "none")
        ELSE IF ~validate_model_name(model)
        THEN Handled(InvalidModelName,
                     <<"validate_json_payload", "handler", "validate_model_name">>,
                     "none")
        ELSE Handled(
               CASE o = "ok" ->
                      Response(200, create_success_response(
                          [model |-> model.v, output |-> "stdout",
                           command_success |-> TRUE],
                          <<"Modello ", model.v, " fermato con successo">>))
                 [] o = "CalledProcessError" ->
                      Response(500, create_error_response(
                          <<"Errore nel fermare il modello ", model.v, ": ", "str(e)">>,
                          "OLLAMA_STOP_ERROR"))
                 [] o = "TimeoutExpired" ->
                      Response(500, create_error_response(
                          <<"Timeout durante l'arresto del modello ", model.v>>,
                          "OLLAMA_STOP_TIMEOUT"))
                 [] OTHER -> InternalError("Errore interno durante l'arresto: "),
               <<"validate_json_payload", "handler", "validate_model_name",
                 "ollama stop">>, run)

\* POST /pull
pull_model(r, o) ==
    LET v == validate_json_payload(<<"model">>, r)
        model == Get(r.data, "model")
    IN  IF v.status # 0 THEN Handled(v, <<"validate_json_payload">>, "none")
        ELSE IF r.data.t # "dict"
        THEN Handled(InternalError("Errore interno durante il download: "),
                     <<"validate_json_payload", "handler">>, "none")
        ELSE IF ~validate_model_name(model)
        THEN Handled(InvalidModelName,
                     <<"validate_json_payload", "handler", "validate_model_name">>,
                     "none")
        ELSE Handled(
               CASE o = "ok" ->
                      Response(200, create_success_response(
                          [model |-> model.v, download_success |-> TRUE],
                          <<"Modello ", model.v, " scaricato con successo">>))
                 [] o = "ResponseError" ->
                      Response(500, create_error_response(
                          <<"Errore nel scaricare il modello ", model.v, ": ", "str(e)">>,
                          "OLLAMA_PULL_ERROR"))
                 [] OTHER -> InternalError("Errore interno durante il download: "),
               <<"validate_json_payload", "handler", "validate_model_name",
                 "ollama.pull">>, o)

not_found_unwrapped(r, o) ==
    Handled(Response(404, [error |-> <<"Endpoint non trovato">>]),
            <<"not_found">>, "none")

\* @app.errorhandler(404)
not_found(r, o) ==
    Handled(Response(404, create_error_response(
                <<"Endpoint non trovato">>, "ENDPOINT_NOT_FOUND")),
            <<"not_found">>, "none")

\* @app.errorhandler(405)
method_not_allowed(r, o) ==
    Handled(Response(405, create_error_response(
                <<"Metodo HTTP non consentito">>, "METHOD_NOT_ALLOWED")),
            <<"method_not_allowed">>, "none")

(***************************************************************************)
(* Inputs: configurations and requests                                     *)
(***************************************************************************)
AddrA == <<"a">>
AddrB == <<"b">>
Addresses == {AddrA, AddrB}

TheKey == <<"k">>
WrongKey == <<"w">>

\* values of the ALLOWED_IPS environment variable
AllowedIpsValues ==
    { NoText, <<>>, <<"a">>, <<"b", ",", " ", "a">>, <<",">> }

\* values of the API_KEY environment variable
ApiKeyValues == { NoText, <<>>, TheKey }

Configs ==
    [ RATE_LIMIT_ENABLED : BOOLEAN,
      RATE_LIMIT_PER_MINUTE : 0..MaxBudget,
      ALLOWED_IPS : AllowedIpsValues,
      API_KEY : ApiKeyValues ]

\* what a request carries as X-API-Key header or api_key query parameter
KeyValues == { PyNone, PyStr(<<>>), PyStr(TheKey), PyStr(WrongKey) }

Request(path, method, addr, hk, qk, is_json, data) ==
    [path |-> path, method |-> method, remote_addr |-> addr,
     header_key |-> hk, query_key |-> qk, is_json |-> is_json, data |-> data]

\* the url map built by the @app.route decorators
Routes ==
    [p \in {"/health", "/list", "/ps", "/generate", "/chat", "/stop", "/pull"} |->
        IF p \in {"/health", "/list", "/ps"} THEN "GET" ELSE "POST"]

NoRequest == Request("", "", <<>>, PyNone, PyNone, FALSE, PyNone)

\* the worker threads of the server (app.run serves each request in its own)
Threads == {"t1", "t2"}

\* a thread that is handling no request
Idle == [pc |-> "idle", r |-> NoRequest, current_time |-> 0]

(***************************************************************************)
(* Actions: one per route, each the whole of Flask's handling of a request *)
(* (before_request, then the view function or the error handler).          *)
(***************************************************************************)
\* how far the clock moves between two requests
TickSteps == {30, 31}

\* time passes
Recent(times, t) ==
    LET fresh(x) == t - x <= WINDOW
    IN  SelectSeq(times, fresh)

Tick ==
    /\ \E d \in TickSteps : now + d <= MaxTime /\ now' = now + d
    /\ passed' = [a \in DOMAIN passed |-> Recent(passed[a], now')]
    /\ UNCHANGED <<config, rate_limit_storage, req, resp, trace, upstream,
                   settings, process, threads>>

\* full_dispatch_request: the middleware first; its response, if it returns
\* one, is the answer and the view function is not called.  Otherwise the
\* view function h runs; when it reaches its upstream call, the call ends in
\* one of the outcomes O.  There is an application to dispatch to only if
\* the import of config.settings did not raise.
Finish(r, m, h) ==
    /\ process = "serving"
    /\ req' = r
    /\ rate_limit_storage' = m.storage
    /\ passed' = IF m.counted
                 THEN [passed EXCEPT ![r.remote_addr] = Append(@, now)]
                 ELSE passed
    /\ resp' = h.resp
    /\ trace' = m.trace \o h.trace
    /\ upstream' = h.upstream
    /\ UNCHANGED <<config, now, settings, process, threads>>

full_dispatch_request_view_always(m, h) ==
    IF m.resp.status # 0 THEN Handled(m.resp, h.trace, h.upstream) ELSE h

\* a response returned by the before_request function is the answer, and the
\* view function (result h) is then not run
full_dispatch_request(m, h) ==
    IF m.resp.status # 0 THEN Handled(m.resp, <<>>, "none") ELSE h

Serve(r, O, h(_, _)) ==
    LET m == security_middleware(r, config, rate_limit_storage, now)
        any == CHOOSE o \in O : TRUE
    IN  IF h(r, any).upstream = "none"
        THEN Finish(r, m, full_dispatch_request(m, h(r, any)))
        ELSE \E o \in O : Finish(r, m, full_dispatch_request(m, h(r, o)))

EngineOutcomes == {"ok", "ResponseError", "Exception"}
\* requests.get on the engine: a status code, requests.Timeout, another error
ProbeOutcomes == {"200", "503", "Timeout", "Exception"}

Routed(r, path) == r.path = path /\ r.method = Routes[path]

HealthCheck(r) ==
    Routed(r, "/health") /\ Serve(r, ProbeOutcomes, health_check)

GenerateResponse(r) ==
    Routed(r, "/generate") /\ Serve(r, EngineOutcomes, generate_response)

Chat(r) ==
    Routed(r, "/chat") /\ Serve(r, EngineOutcomes, chat)

ListModels(r) ==
    Routed(r, "/list") /\ Serve(r, EngineOutcomes, list_models)

ProcessStatus(r) ==
    Routed(r, "/ps") /\ Serve(r, CommandRuns, process_status)

StopModel(r) ==
    Routed(r, "/stop") /\ Serve(r, CommandRuns, stop_model)

PullModel(r) ==
    Routed(r, "/pull") /\ Serve(r, EngineOutcomes, pull_model)

NotFound(r) ==
    r.path \notin DOMAIN Routes /\ Serve(r, {"none"}, not_found)

MethodNotAllowed(r) ==
    r.path \in DOMAIN Routes /\ r.method # Routes[r.path] /\ Serve(r, {"none"}, method_not_allowed)

Dispatch(r) ==
    \/ HealthCheck(r)
    \/ GenerateResponse(r)
    \/ Chat(r)
    \/ ListModels(r)
    \/ ProcessStatus(r)
    \/ StopModel(r)
    \/ PullModel(r)
    \/ NotFound(r)
    \/ MethodNotAllowed(r)

InitWith(cfgs) ==
    /\ config \in cfgs
    /\ now = 0
    /\ rate_limit_storage = <<>>
    /\ req = NoRequest
    /\ resp = NoResponse
    /\ trace = <<>>
    /\ upstream = "none"
    /\ passed = [a \in Addresses |-> <<>>]
    /\ settings = DefaultSettings
    /\ process = "serving"
    /\ threads = [t \in Threads |-> Idle]

(***************************************************************************)
(* Request bodies                                                          *)
(***************************************************************************)
\* values of the "model" field: texts, and JSON values that are no text
ModelValues ==
    { PyStr(<<"m">>), PyStr(<<"m", ".", "1">>), PyStr(<<>>), PyStr(<<" ">>),
      PyStr(<<"a", "/", "b">>), PyStr(<<"\\">>), PyStr(<<".", ".">>),
      PyStr(<<"<">>), PyStr(<<"m", ">">>), PyStr(<<"|", "m">>), PyStr(<<"&">>),
      PyStr(<<"m", ";", "x">>), PyNone, PyInt(7) }

PromptValues == { PyStr(<<"h", "i">>) }

\* values of the "messages" field
MessagesValues ==
    { PyList(<<"msg">>), PyList(<<>>), PyStr(<<"h", "i">>), PyNone }

Fields == {"model", "prompt", "messages"}

FieldValues(k) ==
    CASE k = "model" -> ModelValues
      [] k = "prompt" -> PromptValues
      [] k = "messages" -> MessagesValues

\* JSON objects over the three fields, the empty object included
DictBodies ==
    UNION { { PyDict(f) : f \in { g \in [K -> ModelValues \cup PromptValues \cup MessagesValues] :
                                    \A k \in K : g[k] \in FieldValues(k) } } :
            K \in SUBSET Fields }

\* JSON arrays of field names
ListBodies ==
    { PyList(<<>>), PyList(<<"model">>), PyList(<<"model", "prompt">>),
      PyList(<<"messages", "model">>) }

\* (is_json, get_json()) of a request
Bodies ==
    {<<FALSE, PyNone>>} \cup { <<TRUE, d>> : d \in DictBodies \cup ListBodies }

PostPaths == { p \in DOMAIN Routes : Routes[p] = "POST" }
GetPaths == { p \in DOMAIN Routes : Routes[p] = "GET" }

\* a well-formed body for every POST route
GoodBody ==
    PyDict([k \in Fields |->
              CASE k = "model" -> PyStr(<<"m">>)
                [] k = "prompt" -> PyStr(<<"h", "i">>)
                [] k = "messages" -> PyList(<<"msg">>)])

(***************************************************************************)
(* The router: every body on every route, from one admitted client         *)
(***************************************************************************)
OpenConfig ==
    [RATE_LIMIT_ENABLED |-> FALSE, RATE_LIMIT_PER_MINUTE |-> 1,
     ALLOWED_IPS |-> NoText, API_KEY |-> NoText]

GuardedConfig ==
    [RATE_LIMIT_ENABLED |-> TRUE, RATE_LIMIT_PER_MINUTE |-> 1,
     ALLOWED_IPS |-> <<"a">>, API_KEY |-> TheKey]

RouterConfigs == {OpenConfig, GuardedConfig}

\* the fields a route reads from its body
RouteFields(p) ==
    CASE p = "/generate" -> {"model", "prompt"}
      [] p = "/chat" -> {"model", "messages"}
      [] OTHER -> {"model"}

\* the bodies sent to a route: no JSON, arrays, and objects over the route's
\* own fields or with a single field the route does not read
RouteBodies(p) ==
    { b \in Bodies :
        b[2].t = "dict" =>
            \/ DOMAIN b[2].v \subseteq RouteFields(p)
            \/ /\ Cardinality(DOMAIN b[2].v) = 1
               /\ DOMAIN b[2].v \cap RouteFields(p) = {}
               /\ \A k \in DOMAIN b[2].v : b[2].v[k] = GoodBody.v[k] }

RouterRequests ==
    { Request(pb[1], "POST", AddrA, PyStr(TheKey), PyNone, pb[2][1], pb[2][2]) :
        pb \in UNION { {p} \X RouteBodies(p) : p \in PostPaths } }
    \cup { Request(p, "GET", AddrA, PyStr(TheKey), PyNone, FALSE, PyNone) :
        p \in GetPaths \cup {"/generate", "/nope"} }

InitRouter == InitWith(RouterConfigs)

NextRouter == Tick \/ \E r \in RouterRequests : Dispatch(r)

SpecRouter == InitRouter /\ [][NextRouter]_vars

(***************************************************************************)
(* The service as a whole: two clients, every route, the clock             *)
(***************************************************************************)
\* every limiter setting, with the allow-list and the key each off or on
SpecConfigs ==
    { c \in Configs : \/ c.ALLOWED_IPS = NoText /\ c.API_KEY = NoText
                      \/ c.ALLOWED_IPS = <<"a">> /\ c.API_KEY = TheKey }

\* the probe and the model list from both clients, the list with and without
\* the key; every other route once, with a well-formed body; an unknown
\* path and a wrong method, with the key and without
Requests ==
    { Request("/health", "GET", a, PyNone, PyNone, FALSE, PyNone) : a \in Addresses }
    \cup { Request("/list", "GET", a, hk, PyNone, FALSE, PyNone) :
        a \in Addresses, hk \in {PyNone, PyStr(TheKey)} }
    \cup { Request(p, "POST", AddrA, PyStr(TheKey), PyNone, TRUE, GoodBody) :
        p \in PostPaths \cup {"/list"} }
    \cup { Request(p, "GET", AddrA, PyStr(TheKey), PyNone, FALSE, PyNone) :
        p \in {"/ps", "/nope"} }
    \cup { Request("/nope", "GET", AddrA, PyNone, PyNone, FALSE, PyNone),
           Request("/health", "POST", AddrB, PyNone, PyNone, FALSE, PyNone) }

Init == InitWith(SpecConfigs)

Next == Tick \/ \E r \in Requests : Dispatch(r)

Spec == Init /\ [][Next]_vars

(***************************************************************************)
(* Access control: every allow-list and key setting, every way of sending  *)
(* a key                                                                   *)
(***************************************************************************)
AuthConfigs ==
    { c \in Configs : /\ c.RATE_LIMIT_PER_MINUTE <= 1
                      /\ ~c.RATE_LIMIT_ENABLED => c.RATE_LIMIT_PER_MINUTE = 0 }

AuthRequests ==
    { Request("/list", "GET", a, hk, qk, FALSE, PyNone) :
        a \in Addresses, hk \in KeyValues, qk \in KeyValues \ {PyStr(<<>>)} }
    \cup { Request("/health", "GET", a, PyNone, PyNone, FALSE, PyNone) :
        a \in Addresses }

InitAuth == InitWith(AuthConfigs)

NextAuth == Tick \/ \E r \in AuthRequests : (HealthCheck(r) \/ ListModels(r))

SpecAuth == InitAuth /\ [][NextAuth]_vars

(***************************************************************************)
(* Startup: the import of config.settings under every kind of port and     *)
(* timeout setting, then the service if the import succeeded               *)
(***************************************************************************)
PortValues == {0, 1, MAX_PORT, MAX_PORT + 1}

StartupSettings ==
    [ PORT : PortValues,
      OLLAMA_PORT : PortValues,
      OLLAMA_TIMEOUT : {0, 3600},
      REQUEST_TIMEOUT : {-1, 0, 1},
      GENERATE_TIMEOUT : {-1, 0, 1} ]

\* settings.py:126-131: config = Config(); raise ValueError unless validate()
ImportSettings ==
    /\ process = "importing"
    /\ process' = IF validate(settings) THEN "serving" ELSE "failed"
    /\ UNCHANGED <<config, now, rate_limit_storage, req, resp, trace, upstream,
                   passed, settings, threads>>

StartupRequests ==
    { Request(p, "GET", AddrA, PyNone, PyNone, FALSE, PyNone) :
        p \in {"/health", "/list"} }

InitStartup ==
    /\ config = OpenConfig
    /\ now = 0
    /\ rate_limit_storage = <<>>
    /\ req = NoRequest
    /\ resp = NoResponse
    /\ trace = <<>>
    /\ upstream = "none"
    /\ passed = [a \in Addresses |-> <<>>]
    /\ settings \in StartupSettings
    /\ process = "importing"
    /\ threads = [t \in Threads |-> Idle]

NextStartup ==
    \/ ImportSettings
    \/ Tick
    \/ \E r \in StartupRequests : (HealthCheck(r) \/ ListModels(r))

SpecStartup == InitStartup /\ [][NextStartup]_vars

(***************************************************************************)
(* Two requests at once: the limiter block of security_middleware          *)
(* (api.py:78-96) taken statement by statement by each worker thread on    *)
(* the shared store.  Nothing in the code locks the store.                 *)
(***************************************************************************)
RaceConfigs ==
    { c \in Configs : /\ c.RATE_LIMIT_ENABLED
                      /\ c.RATE_LIMIT_PER_MINUTE >= 1
                      /\ c.ALLOWED_IPS = NoText /\ c.API_KEY = NoText }

RaceRequests == { Request("/list", "GET", AddrA, PyNone, PyNone, FALSE, PyNone) }

\* the deque the thread's request_times refers to
Shared(t) == Lookup(rate_limit_storage, threads[t].r.remote_addr)

Goto(t, pc) == threads' = [threads EXCEPT ![t].pc = pc]

\* the thread's request is answered
Respond(t, h) ==
    /\ req' = threads[t].r
    /\ resp' = h.resp
    /\ trace' = h.trace
    /\ upstream' = h.upstream
    /\ threads' = [threads EXCEPT ![t] = Idle]

\* lines 74-80: not /health, limiter on, current_time = time.time()
ReadClock(t, r) ==
    /\ process = "serving"
    /\ threads[t].pc = "idle"
    /\ ~Exempt(r) /\ config.RATE_LIMIT_ENABLED
    /\ threads' = [threads EXCEPT ![t] =
                      [pc |-> "lookup", r |-> r, current_time |-> now]]
    /\ UNCHANGED <<config, now, rate_limit_storage, req, resp, trace, upstream,
                   passed, settings, process>>

\* line 83: request_times = rate_limit_storage[client_ip]
LookupRecord(t) ==
    /\ threads[t].pc = "lookup"
    /\ rate_limit_storage' =
          [a \in DOMAIN rate_limit_storage \cup {threads[t].r.remote_addr} |->
              Lookup(rate_limit_storage, a)]
    /\ Goto(t, "while")
    /\ UNCHANGED <<config, now, req, resp, trace, upstream, passed, settings,
                   process>>

\* line 84: while request_times and current_time - request_times[0] > 60
WhileTest(t) ==
    /\ threads[t].pc = "while"
    /\ IF Shared(t) # <<>> /\ threads[t].current_time - Head(Shared(t)) > WINDOW
       THEN Goto(t, "popleft")
       ELSE Goto(t, "if")
    /\ UNCHANGED <<config, now, rate_limit_storage, req, resp, trace, upstream,
                   passed, settings, process>>

\* line 85: request_times.popleft(); on an empty deque it raises IndexError,
\* which Flask answers through the 500 handler (api.py:542-549)
PopLeft(t) ==
    /\ threads[t].pc = "popleft"
    /\ IF Shared(t) = <<>>
       THEN /\ Respond(t, Handled(
                   Response(500, create_error_response(
                       <<"Errore interno del server">>, "INTERNAL_SERVER_ERROR")),
                   <<"rate_limit">>, "none"))
            /\ UNCHANGED rate_limit_storage
       ELSE /\ rate_limit_storage' =
                  [rate_limit_storage EXCEPT ![threads[t].r.remote_addr] = Tail(@)]
            /\ Goto(t, "while")
            /\ UNCHANGED <<req, resp, trace, upstream>>
    /\ UNCHANGED <<config, now, passed, settings, process>>

\* lines 88-93: if len(request_times) >= config.RATE_LIMIT_PER_MINUTE: 429
IfOverLimit(t) ==
    /\ threads[t].pc = "if"
    /\ IF OverLimit(Shared(t), config)
       THEN Respond(t, Handled(RateLimitDenied(config), <<"rate_limit">>, "none"))
       ELSE Goto(t, "append") /\ UNCHANGED <<req, resp, trace, upstream>>
    /\ UNCHANGED <<config, now, rate_limit_storage, passed, settings, process>>

\* line 96: request_times.append(current_time)
AppendTime(t) ==
    /\ threads[t].pc = "append"
    /\ rate_limit_storage' =
          [rate_limit_storage EXCEPT ![threads[t].r.remote_addr] =
              Append(@, threads[t].current_time)]
    /\ passed' = [passed EXCEPT ![threads[t].r.remote_addr] = Append(@, now)]
    /\ Goto(t, "allowed_ips")
    /\ UNCHANGED <<config, now, req, resp, trace, upstream, settings, process>>

\* lines 99-115 and the view function, which touch nothing shared
Continue(t) ==
    /\ threads[t].pc = "allowed_ips"
    /\ LET r == threads[t].r IN
       IF IpRefused(r, config)
       THEN Respond(t, Handled(IpDenied, <<"rate_limit", "allowed_ips">>, "none"))
       ELSE IF KeyRefused(r, config)
       THEN Respond(t, Handled(KeyDenied,
                                <<"rate_limit", "allowed_ips", "api_key">>, "none"))
       ELSE \E o \in EngineOutcomes :
               Respond(t, Handled(list_models(r, o).resp,
                                  <<"rate_limit", "allowed_ips", "api_key">>
                                      \o list_models(r, o).trace,
                                  o))
    /\ UNCHANGED <<config, now, rate_limit_storage, passed, settings, process>>

InitRace == InitWith(RaceConfigs)

NextRace ==
    \/ Tick
    \/ \E t \in Threads :
          \/ \E r \in RaceRequests : ReadClock(t, r)
          \/ LookupRecord(t)
          \/ WhileTest(t)
          \/ PopLeft(t)
          \/ IfOverLimit(t)
          \/ AppendTime(t)
          \/ Continue(t)

SpecRace == InitRace /\ [][NextRace]_vars

(***************************************************************************)
(* Vocabulary of the properties, stated without the operators above        *)
(***************************************************************************)
Answered == req # NoRequest

\* a step that answers a request (the clock stands still while it runs)
RequestStep == now' = now

Reached(step) == step \in Range(trace)

Denied == resp.status \in {401, 403, 429}

ErrorCode(response, status, code) ==
    /\ response.status = status
    /\ "error_code" \in DOMAIN response.body
    /\ response.body.error_code = code

\* how many timestamps of a record are not older than the window at time t
Fresh(record, t) == Cardinality({ i \in DOMAIN record : t - record[i] <= WINDOW })

RecordOf(a) == IF a \in DOMAIN rate_limit_storage THEN rate_limit_storage[a] ELSE <<>>

\* the text is one of the comma-separated items of csv, blanks around it aside
ItemOf(text, csv) ==
    \E i \in 1..Len(csv), j \in 1..Len(csv) :
        /\ i <= j
        /\ i = 1 \/ csv[i - 1] = ","
        /\ j = Len(csv) \/ csv[j + 1] = ","
        /\ \A k \in i..j : csv[k] # ","
        /\ \E m \in i..j, n \in i..j :
              /\ n - m + 1 = Len(text)
              /\ \A k \in 1..Len(text) : csv[m + k - 1] = text[k]
              /\ \A k \in (i..j) \ (m..n) : csv[k] = " "

AllowListOn == config.ALLOWED_IPS # NoText /\ config.ALLOWED_IPS # <<>>

ApiKeyOn == config.API_KEY # NoText /\ config.API_KEY # <<>>

\* the key a request presents: its X-API-Key header, and only when that is
\* absent or empty its api_key query parameter
Candidate(r) ==
    IF r.header_key.t = "str" /\ Len(r.header_key.v) > 0
    THEN r.header_key ELSE r.query_key

ExactKey(x) == x.t = "str" /\ x.v = config.API_KEY

(***************************************************************************)
(* C1: a request to /health is never answered 401, 403 or 429, whatever    *)
(* the limiter, its budget, the client's record, the allow-list and the    *)
(* API key are.                                                            *)
(***************************************************************************)
C1_HealthNeverDenied ==
    (Answered /\ req.path = "/health") => ~Denied

\* /health answered 200 for a client that is not on the allow-list, sent no
\* key, and whose record is at its budget
C1_Witness ==
    /\ req.path = "/health" /\ req.method = "GET" /\ req.remote_addr = AddrB
    /\ config.RATE_LIMIT_ENABLED /\ config.RATE_LIMIT_PER_MINUTE = 1
    /\ Fresh(RecordOf(AddrB), now) >= 1
    /\ config.ALLOWED_IPS = <<"a">> /\ config.API_KEY = TheKey
    /\ resp.status = 200

(***************************************************************************)
(* C2: with the limiter on and requests handled one after another, no      *)
(* address has more than budget-many requests pass the limiter within 60   *)
(* seconds, and a request that arrives while its address's record holds    *)
(* budget-many timestamps not older than 60 seconds is answered 429,       *)
(* RATE_LIMIT_EXCEEDED.                                                    *)
(***************************************************************************)
C2_WithinBudget ==
    config.RATE_LIMIT_ENABLED =>
        \A a \in Addresses : Len(passed[a]) <= config.RATE_LIMIT_PER_MINUTE

C2_FullRecordDenies ==
    (/\ RequestStep
     /\ config.RATE_LIMIT_ENABLED
     /\ req'.path # "/health"
     /\ Fresh(RecordOf(req'.remote_addr), now) >= config.RATE_LIMIT_PER_MINUTE)
    => ErrorCode(resp', 429, "RATE_LIMIT_EXCEEDED")

C2_RateLimit == []C2_WithinBudget /\ [][C2_FullRecordDenies]_vars

\* a third request within the minute refused, two having passed
C2_Witness ==
    /\ config.RATE_LIMIT_ENABLED /\ config.RATE_LIMIT_PER_MINUTE = 2
    /\ Answered /\ Len(passed[req.remote_addr]) = 2
    /\ now > 0
    /\ ErrorCode(resp, 429, "RATE_LIMIT_EXCEEDED")

(***************************************************************************)
(* C3: with a non-empty allow-list configured, a request the allow-list    *)
(* check is run on is answered 403, UNAUTHORIZED_IP, when its address is   *)
(* not an item of the list, and passes on to the API-key check when it is. *)
(***************************************************************************)
C3_AllowList ==
    (Answered /\ AllowListOn /\ Reached("allowed_ips")) =>
        IF ItemOf(req.remote_addr, config.ALLOWED_IPS)
        THEN resp.status # 403 /\ Reached("api_key")
        ELSE ErrorCode(resp, 403, "UNAUTHORIZED_IP")

\* a client that is not on the list is refused
C3_Witness ==
    /\ config.ALLOWED_IPS = <<"a">> /\ ~config.RATE_LIMIT_ENABLED
    /\ req.path = "/list" /\ req.remote_addr = AddrB
    /\ ErrorCode(resp, 403, "UNAUTHORIZED_IP")

(***************************************************************************)
(* C4 as stated: with an API key configured, a request the key check is    *)
(* run on passes when its header or its query parameter is the exact key,  *)
(* and is answered 401, INVALID_API_KEY, otherwise.                        *)
(***************************************************************************)
C4_EitherPlace ==
    (Answered /\ ApiKeyOn /\ Reached("api_key")) =>
        IF ExactKey(req.header_key) \/ ExactKey(req.query_key)
        THEN resp.status # 401
        ELSE ErrorCode(resp, 401, "INVALID_API_KEY")

(***************************************************************************)
(* C4 as amended: the key a request presents is its X-API-Key header, or   *)
(* its api_key query parameter when the header is absent or empty; the     *)
(* request passes the key check exactly when that one value is the exact   *)
(* key, and is answered 401, INVALID_API_KEY, otherwise.                   *)
(***************************************************************************)
C4_HeaderFirst ==
    (Answered /\ ApiKeyOn /\ Reached("api_key")) =>
        IF ExactKey(Candidate(req))
        THEN resp.status # 401
        ELSE ErrorCode(resp, 401, "INVALID_API_KEY")

\* the exact key in the query parameter, refused because of the header
C4_Witness ==
    /\ ApiKeyOn
    /\ req.header_key = PyStr(WrongKey) /\ req.query_key = PyStr(TheKey)
    /\ ErrorCode(resp, 401, "INVALID_API_KEY")

(***************************************************************************)
(* C5: the checks run in the order liveness exemption, rate limit, allow-  *)
(* list, API key.  A request that is not to /health is answered by the     *)
(* first check it fails (429, else 403, else 401), the checks after that   *)
(* one are not reached, and a request failing none is not denied.          *)
(***************************************************************************)
RateFails(r) ==
    /\ config.RATE_LIMIT_ENABLED
    /\ Fresh(RecordOf(r.remote_addr), now) >= config.RATE_LIMIT_PER_MINUTE

IpFails(r) == AllowListOn /\ ~ItemOf(r.remote_addr, config.ALLOWED_IPS)

KeyFails(r) == ApiKeyOn /\ ~ExactKey(Candidate(r))

C5_Step ==
    (RequestStep /\ req'.path # "/health") =>
        CASE RateFails(req') ->
               /\ ErrorCode(resp', 429, "RATE_LIMIT_EXCEEDED")
               /\ trace' = <<"rate_limit">>
          [] ~RateFails(req') /\ IpFails(req') ->
               /\ ErrorCode(resp', 403, "UNAUTHORIZED_IP")
               /\ trace' = <<"rate_limit", "allowed_ips">>
          [] ~RateFails(req') /\ ~IpFails(req') /\ KeyFails(req') ->
               /\ ErrorCode(resp', 401, "INVALID_API_KEY")
               /\ trace' = <<"rate_limit", "allowed_ips", "api_key">>
          [] OTHER ->
               /\ resp'.status \notin {401, 403, 429}
               /\ SubSeq(trace', 1, 3) = <<"rate_limit", "allowed_ips", "api_key">>

C5_FixedOrder == [][C5_Step]_vars

\* a request failing all three checks, answered 429 with nothing else reached
C5_Witness ==
    /\ config.RATE_LIMIT_ENABLED /\ config.RATE_LIMIT_PER_MINUTE = 1
    /\ config.ALLOWED_IPS = <<"a">> /\ config.API_KEY = TheKey
    /\ req.path = "/list" /\ req.remote_addr = AddrB
    /\ req.header_key = PyStr(WrongKey)
    /\ resp.status = 429 /\ trace = <<"rate_limit">>

(***************************************************************************)
(* C6: a policy that is not configured is off: no 429 with the limiter     *)
(* off, no 403 with no or an empty allow-list, no 401 with no API key, and *)
(* with all three off every request reaches its handler.                   *)
(***************************************************************************)
C6_Unconfigured ==
    Answered =>
        /\ ~config.RATE_LIMIT_ENABLED => resp.status # 429
        /\ ~AllowListOn => resp.status # 403
        /\ ~ApiKeyOn => resp.status # 401
        /\ (~config.RATE_LIMIT_ENABLED /\ ~AllowListOn /\ ~ApiKeyOn) =>
              ~Denied /\ (Reached("handler") \/ Reached("health_check_ollama"))

\* nothing configured (the allow-list and key set but empty): an unknown
\* client with a wrong key is served
C6_Witness ==
    /\ ~config.RATE_LIMIT_ENABLED
    /\ config.ALLOWED_IPS = <<>> /\ config.API_KEY = <<>>
    /\ req.path = "/list" /\ req.remote_addr = AddrB
    /\ req.header_key = PyStr(WrongKey)
    /\ resp.status = 200

(***************************************************************************)
(* Vocabulary of the router properties                                     *)
(***************************************************************************)
IsSuccessEnvelope(body) ==
    /\ DOMAIN body = {"status", "message", "data", "timestamp"}
    /\ body.status = "success"

IsErrorEnvelope(body) ==
    /\ DOMAIN body = {"status", "error", "error_code", "timestamp"}
    /\ body.status = "error"

\* the fields each POST route requires
Required(path) ==
    CASE path = "/generate" -> {"model", "prompt"}
      [] path = "/chat" -> {"model", "messages"}
      [] path = "/stop" -> {"model"}
      [] path = "/pull" -> {"model"}

\* a POST to one of the four routes that take a model, let in by admission
AdmittedPost ==
    /\ Answered /\ ~Denied
    /\ req.method = "POST" /\ req.path \in {"/generate", "/chat", "/stop", "/pull"}

\* ... whose body is a JSON object
ObjectBody == AdmittedPost /\ req.is_json /\ req.data.t = "dict"

\* ... that holds every required field
CompleteBody == ObjectBody /\ Required(req.path) \subseteq DOMAIN req.data.v

UpstreamSteps ==
    {"ollama.generate", "ollama.chat", "ollama.list", "ollama.pull",
     "ollama ps", "ollama stop"}

NothingCalled == upstream = "none" /\ Range(trace) \cap UpstreamSteps = {}

HasDangerous(text) ==
    \/ \E i \in DOMAIN text : text[i] \in {"/", "\\", "<", ">", "|", "&", ";"}
    \/ \E i \in 1..(Len(text) - 1) : text[i] = "." /\ text[i + 1] = "."

\* a model identifier that is empty or holds a forbidden substring
BadName(x) == x.t = "str" /\ (x.v = <<>> \/ HasDangerous(x.v))

\* a model identifier the service accepts
GoodName(x) ==
    /\ x.t = "str"
    /\ \E i \in DOMAIN x.v : x.v[i] # " "
    /\ ~HasDangerous(x.v)

\* the field names an error message mentions
Named(response) ==
    IF "error" \in DOMAIN response.body
    THEN Range(response.body.error) \cap Fields
    ELSE {}

Missing == Required(req.path) \ DOMAIN req.data.v

(***************************************************************************)
(* C7: every response is a Success envelope {status="success", message,    *)
(* data, timestamp} or an Error envelope {status="error", error,           *)
(* error_code, timestamp}.                                                 *)
(***************************************************************************)
C7_AlwaysEnvelope ==
    Answered => IsSuccessEnvelope(resp.body) \/ IsErrorEnvelope(resp.body)

(***************************************************************************)
(* C8: on generate, chat, stop and pull, an admitted request whose body    *)
(* holds the required fields and whose model identifier is empty or        *)
(* contains /, \, .., <, >, |, & or ; is answered 400, INVALID_MODEL_NAME, *)
(* and nothing is called upstream.                                         *)
(***************************************************************************)
C8_InvalidModelName ==
    (CompleteBody /\ BadName(req.data.v["model"])) =>
        ErrorCode(resp, 400, "INVALID_MODEL_NAME") /\ NothingCalled

\* chat refuses the name before it looks at the (also malformed) messages
C8_Witness ==
    /\ req.path = "/chat" /\ config = GuardedConfig
    /\ CompleteBody
    /\ req.data.v["model"] = PyStr(<<"m", ";", "x">>)
    /\ req.data.v["messages"] = PyList(<<>>)
    /\ ErrorCode(resp, 400, "INVALID_MODEL_NAME") /\ NothingCalled

(***************************************************************************)
(* C9 as stated: on each POST route, a JSON object lacking a required      *)
(* field is answered 400 with a message naming exactly the missing         *)
(* required fields, and the handler body does not run.                     *)
(***************************************************************************)
C9_AnyObject ==
    (ObjectBody /\ Missing # {}) =>
        /\ resp.status = 400
        /\ Named(resp) = Missing
        /\ ~Reached("handler") /\ NothingCalled

(***************************************************************************)
(* C9 as amended: a non-empty JSON object lacking a required field is      *)
(* answered 400 with a message naming exactly the missing required fields; *)
(* the empty object is answered 400 with the "payload missing or invalid"  *)
(* message, which names no field; in both cases the handler body does not  *)
(* run.                                                                    *)
(***************************************************************************)
C9_NonEmptyObject ==
    (ObjectBody /\ Missing # {}) =>
        /\ resp.status = 400
        /\ IF DOMAIN req.data.v # {}
           THEN Named(resp) = Missing
           ELSE resp.body = [error |-> <<"Payload JSON mancante o non valido">>]
        /\ ~Reached("handler") /\ NothingCalled

\* generate is sent a field it does not read and neither of its own
C9_Witness ==
    /\ req.path = "/generate" /\ ObjectBody
    /\ DOMAIN req.data.v = {"messages"}
    /\ resp.status = 400
    /\ Named(resp) = {"model", "prompt"}
    /\ ~Reached("handler")

(***************************************************************************)
(* C10: POST /chat with a valid model name and a messages value that is    *)
(* not a non-empty list is answered 400, INVALID_MESSAGES_FORMAT, and      *)
(* chat() is not called.                                                   *)
(***************************************************************************)
C10_MessagesFormat ==
    (/\ CompleteBody /\ req.path = "/chat"
     /\ GoodName(req.data.v["model"])
     /\ ~(req.data.v["messages"].t = "list" /\ Len(req.data.v["messages"].v) > 0))
    => ErrorCode(resp, 400, "INVALID_MESSAGES_FORMAT") /\ NothingCalled

\* messages: []
C10_Witness ==
    /\ req.path = "/chat" /\ CompleteBody
    /\ req.data.v["model"] = PyStr(<<"m", ".", "1">>)
    /\ req.data.v["messages"] = PyList(<<>>)
    /\ ErrorCode(resp, 400, "INVALID_MESSAGES_FORMAT") /\ NothingCalled

(***************************************************************************)
(* C11: GET /health is answered 200 whether the probe of the engine        *)
(* returns 200, returns another status, times out or raises; ollama_status *)
(* is "online" exactly when the probe returned 200, "offline" otherwise.   *)
(***************************************************************************)
C11_HealthNeverFails ==
    (Answered /\ req.path = "/health" /\ req.method = "GET") =>
        /\ resp.status = 200
        /\ upstream \in {"200", "503", "Timeout", "Exception"}
        /\ resp.body.ollama_status = IF upstream = "200" THEN "online" ELSE "offline"

\* the engine answers the probe, but not with 200
C11_Witness ==
    /\ Answered /\ req.path = "/health" /\ req.method = "GET"
    /\ upstream = "503"
    /\ resp.status = 200 /\ resp.body.ollama_status = "offline"

(***************************************************************************)
(* Vocabulary of the startup properties                                    *)
(***************************************************************************)
PortsInRange ==
    /\ settings.PORT \in 1..65535
    /\ settings.OLLAMA_PORT \in 1..65535

Imported == process # "importing"

Rejected == process = "failed"

C12_WitnessServing ==
    /\ process = "serving" /\ Answered
    /\ settings.PORT = 65535 /\ settings.OLLAMA_PORT = 1

(***************************************************************************)
(* Vocabulary of the upstream properties                                   *)
(***************************************************************************)
\* the calls out of the service: the engine, the control command, the probe
CallSteps == UpstreamSteps \cup {"health_check_ollama"}

Calls == Cardinality({ i \in DOMAIN trace : trace[i] \in CallSteps })

IsRun(u) ==
    u \in {"exit 0 after 5 s", "exit 1 after 5 s", "exit 0 after 20 s",
           "exit 1 after 20 s", "exit 0 after 40 s", "not found"}

\* the control command ran longer than limit seconds
Overran(u, limit) == IsRun(u) /\ u # "not found" /\ Seconds(u) > limit

\* the control command ended within limit seconds with a non-zero status
ExitedNonZero(u, limit) ==
    IsRun(u) /\ u # "not found" /\ Seconds(u) <= limit /\ ExitStatus(u) # 0

\* the upstream call of an operation (the probe aside) failed
UpstreamFailed ==
    /\ req.path # "/health"
    /\ \/ upstream \in {"ResponseError", "Exception", "not found"}
       \/ req.path = "/ps" /\ (Overran(upstream, 10) \/ ExitedNonZero(upstream, 10))
       \/ req.path = "/stop" /\ (Overran(upstream, 30) \/ ExitedNonZero(upstream, 30))

(***************************************************************************)
(* C13: nothing is retried.  Every request makes at most one call to the   *)
(* engine or the control command and gets exactly one response; a failed   *)
(* upstream call of generate, chat, list, pull, ps or stop surfaces as one *)
(* error response.                                                         *)
(***************************************************************************)
C13_NoRetry ==
    Answered =>
        /\ Calls <= 1
        /\ upstream = "none" <=> Calls = 0
        /\ resp.status # 0
        /\ UpstreamFailed => resp.status = 500 /\ IsErrorEnvelope(resp.body)

\* the engine refuses the one generate call
C13_Witness ==
    /\ Answered /\ req.path = "/generate"
    /\ upstream = "ResponseError" /\ Calls = 1
    /\ ErrorCode(resp, 500, "OLLAMA_ERROR")

(***************************************************************************)
(* C14: every upstream failure is answered 500 with the code of the        *)
(* endpoint: an engine-reported failure gives OLLAMA_ERROR in generate and *)
(* chat and OLLAMA_PULL_ERROR in pull; any failure of list gives           *)
(* LIST_MODELS_ERROR; a non-zero exit of the control command gives         *)
(* OLLAMA_PS_ERROR or OLLAMA_STOP_ERROR; the command running over its      *)
(* timeout (10 s for ps, 30 s for stop) gives OLLAMA_PS_TIMEOUT or         *)
(* OLLAMA_STOP_TIMEOUT.                                                    *)
(***************************************************************************)
C14_UpstreamErrors ==
    Answered =>
        /\ UpstreamFailed => resp.status = 500
        /\ (req.path \in {"/generate", "/chat"} /\ upstream = "ResponseError")
              => ErrorCode(resp, 500, "OLLAMA_ERROR")
        /\ (req.path = "/pull" /\ upstream = "ResponseError")
              => ErrorCode(resp, 500, "OLLAMA_PULL_ERROR")
        /\ (req.path = "/list" /\ upstream \in {"ResponseError", "Exception"})
              => ErrorCode(resp, 500, "LIST_MODELS_ERROR")
        /\ (req.path = "/ps" /\ ExitedNonZero(upstream, 10))
              => ErrorCode(resp, 500, "OLLAMA_PS_ERROR")
        /\ (req.path = "/stop" /\ ExitedNonZero(upstream, 30))
              => ErrorCode(resp, 500, "OLLAMA_STOP_ERROR")
        /\ (req.path = "/ps" /\ Overran(upstream, 10))
              => ErrorCode(resp, 500, "OLLAMA_PS_TIMEOUT")
        /\ (req.path = "/stop" /\ Overran(upstream, 30))
              => ErrorCode(resp, 500, "OLLAMA_STOP_TIMEOUT")

\* a command that fails after 20 s: too late for ps, in time for stop
C14_Witness ==
    /\ Answered /\ req.path = "/stop"
    /\ upstream = "exit 1 after 20 s"
    /\ ErrorCode(resp, 500, "OLLAMA_STOP_ERROR")

(***************************************************************************)
(* Vocabulary of the routing properties                                    *)
(***************************************************************************)
GetRoutes == {"/health", "/list", "/ps"}
PostRoutes == {"/generate", "/chat", "/stop", "/pull"}

NoRoute == Answered /\ req.path \notin GetRoutes \cup PostRoutes

WrongMethod ==
    /\ Answered
    /\ \/ req.path \in GetRoutes /\ req.method # "GET"
       \/ req.path \in PostRoutes /\ req.method # "POST"

(***************************************************************************)
(* C15 as stated: a request to a path with no registered route gets a 404  *)
(* error envelope with code ENDPOINT_NOT_FOUND, and a request to a         *)
(* registered path with an unsupported method gets 405 with code           *)
(* METHOD_NOT_ALLOWED.                                                     *)
(***************************************************************************)
C15_EveryRequest ==
    /\ NoRoute =>
          ErrorCode(resp, 404, "ENDPOINT_NOT_FOUND") /\ IsErrorEnvelope(resp.body)
    /\ WrongMethod => ErrorCode(resp, 405, "METHOD_NOT_ALLOWED")

(***************************************************************************)
(* C15 as amended: a request that the admission pipeline does not deny     *)
(* gets a 404 error envelope with code ENDPOINT_NOT_FOUND if its path has  *)
(* no registered route, and 405 with code METHOD_NOT_ALLOWED if its path   *)
(* is registered and its method is not supported; the pipeline runs first, *)
(* so a denied request gets 401, 403 or 429 whatever its path and method.  *)
(***************************************************************************)
C15_AdmittedRequest ==
    /\ (NoRoute /\ ~Denied) =>
          ErrorCode(resp, 404, "ENDPOINT_NOT_FOUND") /\ IsErrorEnvelope(resp.body)
    /\ (WrongMethod /\ ~Denied) => ErrorCode(resp, 405, "METHOD_NOT_ALLOWED")
    /\ ((NoRoute \/ WrongMethod) /\ Denied) =>
          ~Reached("not_found") /\ ~Reached("method_not_allowed")

\* an unknown path asked for with the key, where a key is required
C15_Witness ==
    /\ NoRoute /\ ApiKeyOn /\ ExactKey(Candidate(req))
    /\ ErrorCode(resp, 404, "ENDPOINT_NOT_FOUND")

(***************************************************************************)
(* Vocabulary of the properties of the shared store                        *)
(***************************************************************************)
NonDecreasing(record) ==
    \A i \in DOMAIN record, j \in DOMAIN record : i < j => record[i] <= record[j]

\* the thread is at the comparison of the record length with the budget
Deciding(t) == threads[t].pc = "if"

(***************************************************************************)
(* C16: in every reachable state the timestamps of every address's record  *)
(* are in non-decreasing order from front to back.                         *)
(***************************************************************************)
C16_RecordsSorted ==
    \A a \in DOMAIN rate_limit_storage : NonDecreasing(rate_limit_storage[a])

(***************************************************************************)
(* C17: whenever a request is at the comparison of the record length with  *)
(* the budget, its address's record holds no timestamp older than 60       *)
(* seconds relative to the request's current time, wherever in the record. *)
(***************************************************************************)
C17_NothingStaleAtDecision ==
    \A t \in Threads :
        Deciding(t) =>
            \A i \in DOMAIN RecordOf(threads[t].r.remote_addr) :
                threads[t].current_time - RecordOf(threads[t].r.remote_addr)[i] <= 60

(***************************************************************************)
(* C18: with requests of one address handled at once, no interleaving lets *)
(* the record hold more than budget-many timestamps within 60 seconds or   *)
(* lets more than budget-many requests be admitted in a 60-second window.  *)
(***************************************************************************)
C18_AtomicLimiter ==
    \A a \in Addresses :
        /\ Fresh(RecordOf(a), now) <= config.RATE_LIMIT_PER_MINUTE
        /\ Len(passed[a]) <= config.RATE_LIMIT_PER_MINUTE

(***************************************************************************)
(* C19: a request denied by the admission pipeline (401, 403 or 429) never *)
(* reaches a route handler: no payload validation runs for it and no call  *)
(* to the engine or the control command is made.                           *)
(***************************************************************************)
C19_DeniedStopsThere ==
    (Answered /\ Denied) =>
        /\ ~Reached("validate_json_payload") /\ ~Reached("validate_model_name")
        /\ ~Reached("handler")
        /\ Calls = 0 /\ upstream = "none"

\* a well-formed POST /generate refused by the limiter
C19_Witness ==
    /\ Answered /\ req.path = "/generate" /\ req.method = "POST"
    /\ req.data = GoodBody
    /\ resp.status = 429
    /\ ~Reached("validate_json_payload") /\ Calls = 0

(***************************************************************************)
(* C20: a request denied with 429 adds no timestamp to its address's       *)
(* record; with a budget of at least 1, the first request an address makes *)
(* more than 60 seconds after its oldest recorded timestamp passes the     *)
(* limiter, however many denied requests came in between.                  *)
(***************************************************************************)
IsSuffix(short, long) ==
    /\ Len(short) <= Len(long)
    /\ short = SubSeq(long, Len(long) - Len(short) + 1, Len(long))

\* the address's record after the step
RecordAfter(a) ==
    IF a \in DOMAIN rate_limit_storage' THEN rate_limit_storage'[a] ELSE <<>>

Oldest(record) == CHOOSE x \in Range(record) : \A y \in Range(record) : x <= y

C20_Step ==
    (RequestStep /\ config.RATE_LIMIT_ENABLED /\ req'.path # "/health") =>
        /\ resp'.status = 429 =>
              IsSuffix(RecordAfter(req'.remote_addr), RecordOf(req'.remote_addr))
        /\ (/\ config.RATE_LIMIT_PER_MINUTE >= 1
            /\ RecordOf(req'.remote_addr) # <<>>
            /\ now - Oldest(RecordOf(req'.remote_addr)) > 60)
           => /\ resp'.status # 429
              /\ now \in Range(RecordAfter(req'.remote_addr))

C21_Step ==
    RequestStep =>
        /\ \A b \in Addresses \ {req'.remote_addr} :
              /\ RecordAfter(b) = RecordOf(b)
              /\ b \in DOMAIN rate_limit_storage' <=> b \in DOMAIN rate_limit_storage
        /\ (config.RATE_LIMIT_ENABLED /\ req'.path # "/health") =>
              (resp'.status = 429 <=>
                  Fresh(RecordOf(req'.remote_addr), now)
                      >= config.RATE_LIMIT_PER_MINUTE)

C21_PerAddress == [][C21_Step]_vars

\* b is let through while a's record is at its budget
C21_Witness ==
    /\ config.RATE_LIMIT_ENABLED /\ config.RATE_LIMIT_PER_MINUTE = 1
    /\ Answered /\ req.remote_addr = AddrB /\ req.path = "/list"
    /\ Fresh(RecordOf(AddrA), now) = 1
    /\ resp.status # 429
    /\ RecordOf(AddrB) = <<now>>

(***************************************************************************)
(* C22: with rate limiting enabled, a request (not to /health) that passes *)
(* the limiter has its timestamp recorded before the allow-list and the    *)
(* key are checked, so a request then denied with 403 or 401 has used one  *)
(* unit of its address's per-minute budget.                                *)
(***************************************************************************)
C22_Step ==
    (/\ RequestStep
     /\ config.RATE_LIMIT_ENABLED
     /\ req'.path # "/health"
     /\ resp'.status \in {401, 403})
    => /\ RecordAfter(req'.remote_addr) # <<>>
       /\ RecordAfter(req'.remote_addr)[Len(RecordAfter(req'.remote_addr))] = now
       /\ Fresh(RecordAfter(req'.remote_addr), now)
             = Fresh(RecordOf(req'.remote_addr), now) + 1

C22_DeniedStillCounts == [][C22_Step]_vars

\* refused for its key, and the one unit of the budget is gone
C22_Witness ==
    /\ config.RATE_LIMIT_ENABLED /\ config.RATE_LIMIT_PER_MINUTE = 1
    /\ Answered /\ resp.status = 401
    /\ RecordOf(req.remote_addr) = <<now>>

(***************************************************************************)
(* C23: the rate-limit store is left unchanged by every request to /health *)
(* and, when rate limiting is disabled, by every request: no record is     *)
(* created, no timestamp is appended and none is evicted.                  *)
(***************************************************************************)
C23_Step ==
    (RequestStep /\ (req'.path = "/health" \/ ~config.RATE_LIMIT_ENABLED))
    => rate_limit_storage' = rate_limit_storage

C23_StoreUntouched == [][C23_Step]_vars

\* /health asked by a client that has no record, while another client's
\* record holds a timestamp that is due for eviction
C23_Witness ==
    /\ config.RATE_LIMIT_ENABLED
    /\ Answered /\ req.path = "/health" /\ resp.status \in {200, 405}
    /\ req.remote_addr \notin DOMAIN rate_limit_storage
    /\ \E a \in DOMAIN rate_limit_storage :
          rate_limit_storage[a] # <<>> /\ now - rate_limit_storage[a][1] > 60

====
